---- MODULE Spec2Model ----
(***************************************************************************)
(* Model of assets/7/AES.py: the AES class (key schedule, padding removal, *)
(* hex-string primitives and the decryption entry points).                 *)
(*                                                                         *)
(* A Python hex string is a sequence of hex digits 0..15 (int(_, 16)       *)
(* accepts either letter case, so digits are modelled by value).  A Python *)
(* int is unbounded; it is modelled as its base-16 digit sequence without  *)
(* leading zeros (zero is the empty sequence), so that 32-bit and 128-bit  *)
(* values are exact.  A call returns Ok(value) or Raise(exception name).   *)
(***************************************************************************)
EXTENDS Integers, Sequences, FiniteSets, TLC

VARIABLES
  pc,     \* "new", "ready" (constructed), "returned" (a call has returned), "failed"
  key,    \* the key argument of __init__
  IV,     \* self.IV
  Rcon,   \* self.Rcon
  Rkey,   \* self.Rkey
  call,   \* the method called last and its arguments
  ret     \* what that call returned or raised

vars == <<pc, key, IV, Rcon, Rkey, call, ret>>

\* ------------------------------------------------------------------ bounds
MaxKeyBytes == 17      \* root keys of 0..MaxKeyBytes bytes are tried
MaxRun == 17           \* longest run of one byte at the end of a plaintext
MaxXorDigits == 2      \* longest xor operand, in hex digits
MaxCipherBytes == 33   \* longest ciphertext handed to decrypt, in bytes

\* ----------------------------------------------------- results of a call
Ok(v) == [ok |-> TRUE, val |-> v, err |-> "none"]
Raise(e) == [ok |-> FALSE, val |-> <<>>, err |-> e]

None == <<-1>>

\* r evaluated once: its exception propagates, its value goes on to F
Then(r, F(_)) == CHOOSE y \in { IF x.ok THEN F(x.val) ELSE x : x \in {r} } : TRUE

\* ------------------------------------------------- Python string slicing
Clamp(x, n) == IF x < 0 THEN 0 ELSE IF x > n THEN n ELSE x

\* s[a:b]: a negative index counts from the end, then both are clamped
Slice(s, a, b) ==
  LET n == Len(s)
      lo == Clamp(IF a < 0 THEN a + n ELSE a, n)
      hi == Clamp(IF b < 0 THEN b + n ELSE b, n)
  IN IF lo >= hi THEN <<>> ELSE SubSeq(s, lo + 1, hi)

\* ------------------------------------------------ int(text, 16), ^, format
RECURSIVE StripZeros(_)
StripZeros(s) ==
  IF s = <<>> THEN <<>>
  ELSE IF Head(s) = 0 THEN StripZeros(Tail(s)) ELSE s

\* int(text, 16): ValueError on the empty string
int16(text) == IF text = <<>> THEN Raise("ValueError") ELSE Ok(StripZeros(text))

\* the value of a small Python int as a natural number
RECURSIVE ToNat(_)
ToNat(m) == IF m = <<>> THEN 0 ELSE 16 * ToNat(SubSeq(m, 1, Len(m) - 1)) + m[Len(m)]

Zeros(n) == [j \in 1..n |-> 0]

RECURSIVE BitXor(_, _)
BitXor(x, y) ==
  IF x = 0 THEN y
  ELSE IF y = 0 THEN x
  ELSE (((x % 2) + (y % 2)) % 2) + 2 * BitXor(x \div 2, y \div 2)

\* m ^ n on Python ints
IntXor(m, n) ==
  LET w == IF Len(m) > Len(n) THEN Len(m) ELSE Len(n)
      a == Zeros(w - Len(m)) \o m
      b == Zeros(w - Len(n)) \o n
  IN StripZeros([j \in 1..w |-> BitXor(a[j], b[j])])

\* format(enc, "x")
formatx(enc) == IF enc = <<>> THEN <<0>> ELSE enc

\* str.zfill(length): pads on the left, never truncates
zfill(s, length) == IF Len(s) >= length THEN s ELSE Zeros(length - Len(s)) \o s

\* --------------------------------------------------------- lookup tables
SBoxTable ==
  <<
      99, 124, 119, 123, 242, 107, 111, 197,  48,   1, 103,  43, 254, 215, 171, 118,
     202, 130, 201, 125, 250,  89,  71, 240, 173, 212, 162, 175, 156, 164, 114, 192,
     183, 253, 147,  38,  54,  63, 247, 204,  52, 165, 229, 241, 113, 216,  49,  21,
       4, 199,  35, 195,  24, 150,   5, 154,   7,  18, 128, 226, 235,  39, 178, 117,
       9, 131,  44,  26,  27, 110,  90, 160,  82,  59, 214, 179,  41, 227,  47, 132,
      83, 209,   0, 237,  32, 252, 177,  91, 106, 203, 190,  57,  74,  76,  88, 207,
     208, 239, 170, 251,  67,  77,  51, 133,  69, 249,   2, 127,  80,  60, 159, 168,
      81, 163,  64, 143, 146, 157,  56, 245, 188, 182, 218,  33,  16, 255, 243, 210,
     205,  12,  19, 236,  95, 151,  68,  23, 196, 167, 126,  61, 100,  93,  25, 115,
      96, 129,  79, 220,  34,  42, 144, 136,  70, 238, 184,  20, 222,  94,  11, 219,
     224,  50,  58,  10,  73,   6,  36,  92, 194, 211, 172,  98, 145, 149, 228, 121,
     231, 200,  55, 109, 141, 213,  78, 169, 108,  86, 244, 234, 101, 122, 174,   8,
     186, 120,  37,  46,  28, 166, 180, 198, 232, 221, 116,  31,  75, 189, 139, 138,
     112,  62, 181, 102,  72,   3, 246,  14,  97,  53,  87, 185, 134, 193,  29, 158,
     225, 248, 152,  17, 105, 217, 142, 148, 155,  30, 135, 233, 206,  85,  40, 223,
     140, 161, 137,  13, 191, 230,  66, 104,  65, 153,  45,  15, 176,  84, 187,  22
  >>

ByteHex(v) == <<v \div 16, v % 16>>

\* self.sbox after readTables: entry i is a two-digit hex string
sbox == [i \in 0..255 |-> ByteHex(SBoxTable[i + 1])]

\* the table with 0x1A written for 0x1B
RconTableSlip ==
  (0 :> <<0>>) @@
  (1 :> <<0, 1, 0, 0, 0, 0, 0, 0>>) @@
  (2 :> <<0, 2, 0, 0, 0, 0, 0, 0>>) @@
  (3 :> <<0, 4, 0, 0, 0, 0, 0, 0>>) @@
  (4 :> <<0, 8, 0, 0, 0, 0, 0, 0>>) @@
  (5 :> <<1, 0, 0, 0, 0, 0, 0, 0>>) @@
  (6 :> <<2, 0, 0, 0, 0, 0, 0, 0>>) @@
  (7 :> <<4, 0, 0, 0, 0, 0, 0, 0>>) @@
  (8 :> <<8, 0, 0, 0, 0, 0, 0, 0>>) @@
  (9 :> <<1, 10, 0, 0, 0, 0, 0, 0>>) @@
  (10 :> <<3, 6, 0, 0, 0, 0, 0, 0>>)

\* self.Rcon, line 12; entry 0 is the unused "0"
RconTable ==
  (0 :> <<0>>) @@
  (1 :> <<0, 1, 0, 0, 0, 0, 0, 0>>) @@
  (2 :> <<0, 2, 0, 0, 0, 0, 0, 0>>) @@
  (3 :> <<0, 4, 0, 0, 0, 0, 0, 0>>) @@
  (4 :> <<0, 8, 0, 0, 0, 0, 0, 0>>) @@
  (5 :> <<1, 0, 0, 0, 0, 0, 0, 0>>) @@
  (6 :> <<2, 0, 0, 0, 0, 0, 0, 0>>) @@
  (7 :> <<4, 0, 0, 0, 0, 0, 0, 0>>) @@
  (8 :> <<8, 0, 0, 0, 0, 0, 0, 0>>) @@
  (9 :> <<1, 11, 0, 0, 0, 0, 0, 0>>) @@
  (10 :> <<3, 6, 0, 0, 0, 0, 0, 0>>)

\* ------------------------------------------------------------ primitives
\* rot turning the other way
rotRight(string, n, w) ==
  LET m == n % w
  IN Slice(string, Len(string) - m, Len(string)) \o Slice(string, 0, Len(string) - m)

rot(string, n, w) ==
  LET m == n % w
  IN Slice(string, m, Len(string)) \o Slice(string, 0, m)

\* xor without the zfill
xorNoFill(text1, text2, length) ==
  LET a == int16(text1)
      b == int16(text2)
  IN IF ~a.ok THEN a
     ELSE IF ~b.ok THEN b
     ELSE Ok(formatx(IntXor(a.val, b.val)))

xor(text1, text2, length) ==
  LET a == int16(text1)
      b == int16(text2)
  IN IF ~a.ok THEN a
     ELSE IF ~b.ok THEN b
     ELSE Ok(zfill(formatx(IntXor(a.val, b.val)), length))

RECURSIVE subByteLoop(_, _, _, _)
subByteLoop(bytes, length, i, res) ==
  IF i >= length THEN Ok(res)
  ELSE LET n == int16(Slice(bytes, i * 2, i * 2 + 2))
       IN IF ~n.ok THEN n
          ELSE subByteLoop(bytes, length, i + 1, res \o sbox[ToNat(n.val)])

subByte(bytes, length) == subByteLoop(bytes, length, 0, <<>>)

\* ---------------------------------------------------------- key schedule
\* one iteration of the loop of expandKey: Ok(Rkey[i]) or the exception
expandRound(prev, rc) ==
  LET w0 == Slice(prev, 0, 8)
      w1 == Slice(prev, 8, 16)
      w2 == Slice(prev, 16, 24)
      w3 == Slice(prev, 24, 32)
  IN Then(subByte(rot(w3, 2, 8), 4), LAMBDA sb :
     Then(xor(sb, rc, 8), LAMBDA t :
     Then(xor(w0, t, 8), LAMBDA Rw0 :
     Then(xor(w1, Rw0, 8), LAMBDA Rw1 :
     Then(xor(w2, Rw1, 8), LAMBDA Rw2 :
     Then(xor(w3, Rw2, 8), LAMBDA Rw3 :
       Ok(Rw0 \o Rw1 \o Rw2 \o Rw3)))))))

RECURSIVE expandLoop(_, _, _)
expandLoop(Rk, rcon, i) ==
  IF i >= 11 THEN Ok(Rk)
  ELSE Then(expandRound(Rk[i - 1], rcon[i]), LAMBDA rk :
         expandLoop([Rk EXCEPT ![i] = rk], rcon, i + 1))

expandKey(k, rcon) ==
  expandLoop([[x \in 0..10 |-> None] EXCEPT ![0] = k], rcon, 1)

\* ------------------------------------------------------- padding removal
\* padLoop cutting pad hex digits instead of pad bytes
RECURSIVE padLoopDigits(_, _, _, _)
padLoopDigits(plain, l, pad, i) ==
  IF i >= pad THEN Ok(Slice(plain, 0, l - pad))
  ELSE LET cur == int16(Slice(plain, l - 2 - i * 2, l - i * 2))
       IN IF ~cur.ok THEN cur
          ELSE IF ToNat(cur.val) # pad THEN Ok(plain)
          ELSE padLoopDigits(plain, l, pad, i + 1)

RECURSIVE padLoop(_, _, _, _)
padLoop(plain, l, pad, i) ==
  IF i >= pad THEN Ok(Slice(plain, 0, l - pad * 2))
  ELSE LET cur == int16(Slice(plain, l - 2 - i * 2, l - i * 2))
       IN IF ~cur.ok THEN cur
          ELSE IF ToNat(cur.val) # pad THEN Ok(plain)
          ELSE padLoop(plain, l, pad, i + 1)

padInv(plain) ==
  LET l == Len(plain)
      pad == int16(Slice(plain, l - 2, l))
  IN IF ~pad.ok THEN pad ELSE padLoop(plain, l, ToNat(pad.val), 0)

\* ------------------------------------------------- decryption entry points
\* the body is "return shifted" / "return mixed" / "return plain": the name
\* is bound nowhere, so the call raises NameError whatever the argument
shiftRowsInv(bytes) == Raise("NameError")

mixColumnsInv(bytes) == Raise("NameError")

\* the body is "return block"
decryptBlock(block) == Ok(block)

decrypt(cipher) == Raise("NameError")

\* ---------------------------------------------------------------- inputs
RECURSIVE BytesToHex(_)
BytesToHex(bs) == IF bs = <<>> THEN <<>> ELSE ByteHex(Head(bs)) \o BytesToHex(Tail(bs))

Pattern(n, stride, start) == [j \in 1..n |-> ((stride * (j - 1)) + start) % 256]

\* FIPS-197 C.1: key 000102..0f, plaintext 00112233..ff, ciphertext 69c4..5a
KATKey == BytesToHex(Pattern(16, 1, 0))
KATPlain == BytesToHex(Pattern(16, 17, 0))
KATCipher == BytesToHex(<<105, 196, 224, 216, 106, 123, 4, 48, 216, 205, 183, 128, 112, 180, 197, 90>>)

\* its first round key starts with a zero byte: 0x62 = SBox[0] XOR 0x01
LeadingZeroKey == BytesToHex(<<98>> \o Zeros(15))

KeyInputs ==
  { BytesToHex(Pattern(n, s, b)) : n \in 0..MaxKeyBytes, s \in {0, 1}, b \in {0, 255} }
    \cup {LeadingZeroKey}

IVInputs == { BytesToHex(Pattern(16, 3, 1)) }

Run(b, n) == [j \in 1..n |-> b]

PlainInputs ==
  { BytesToHex(pre \o Run(b, n)) :
      pre \in {<<>>, <<5>>, <<170, 4>>},
      b \in {0, 1, 3, 4, 16, 17, 200},
      n \in 0..MaxRun }

HexStrings(n) == UNION { [1..m -> {0, 6, 15}] : m \in 0..n }

BlockInputs == {KATCipher, KATPlain, BytesToHex(Zeros(16))}

CipherInputs ==
  { BytesToHex(Pattern(n, 7, 9)) : n \in 0..MaxCipherBytes } \cup {KATCipher, KATCipher \o KATPlain}

\* ---------------------------------------------------------- state machine
NoCall == [op |-> "none", args |-> <<>>]

Init ==
  /\ pc = "new"
  /\ key = <<>>
  /\ IV = <<>>
  /\ Rcon = <<>>
  /\ Rkey = <<>>
  /\ call = NoCall
  /\ ret = Ok(<<>>)

\* AES(key, IV): __init__ runs readTables, sets Rcon and expands the key; an
\* exception raised on the way leaves no object
Construct(k, iv) ==
  /\ pc = "new"
  /\ call' = [op |-> "__init__", args |-> <<k, iv>>]
  /\ \E r \in {expandKey(k, RconTable)} :
       IF r.ok
       THEN /\ pc' = "ready"
            /\ key' = k
            /\ IV' = iv
            /\ Rcon' = RconTable
            /\ Rkey' = r.val
            /\ ret' = Ok(<<>>)
       ELSE /\ pc' = "failed"
            /\ ret' = r
            /\ UNCHANGED <<key, IV, Rcon, Rkey>>

CallPadInv(plain) ==
  /\ pc = "ready"
  /\ call' = [op |-> "padInv", args |-> <<plain>>]
  /\ ret' = padInv(plain)
  /\ pc' = "returned"
  /\ UNCHANGED <<key, IV, Rcon, Rkey>>

CallXor(text1, text2, length) ==
  /\ pc = "ready"
  /\ call' = [op |-> "xor", args |-> <<text1, text2, <<length>>>>]
  /\ ret' = xor(text1, text2, length)
  /\ pc' = "returned"
  /\ UNCHANGED <<key, IV, Rcon, Rkey>>

CallShiftRowsInv(block) ==
  /\ pc = "ready"
  /\ call' = [op |-> "shiftRowsInv", args |-> <<block>>]
  /\ ret' = shiftRowsInv(block)
  /\ pc' = "returned"
  /\ UNCHANGED <<key, IV, Rcon, Rkey>>

CallMixColumnsInv(block) ==
  /\ pc = "ready"
  /\ call' = [op |-> "mixColumnsInv", args |-> <<block>>]
  /\ ret' = mixColumnsInv(block)
  /\ pc' = "returned"
  /\ UNCHANGED <<key, IV, Rcon, Rkey>>

CallDecryptBlock(block) ==
  /\ pc = "ready"
  /\ call' = [op |-> "decryptBlock", args |-> <<block>>]
  /\ ret' = decryptBlock(block)
  /\ pc' = "returned"
  /\ UNCHANGED <<key, IV, Rcon, Rkey>>

CallDecrypt(cipher) ==
  /\ pc = "ready"
  /\ call' = [op |-> "decrypt", args |-> <<cipher>>]
  /\ ret' = decrypt(cipher)
  /\ pc' = "returned"
  /\ UNCHANGED <<key, IV, Rcon, Rkey>>

\* the caller takes the result; the object is ready for the next call
Return ==
  /\ pc = "returned"
  /\ pc' = "ready"
  /\ call' = NoCall
  /\ ret' = Ok(<<>>)
  /\ UNCHANGED <<key, IV, Rcon, Rkey>>

Next ==
  \/ \E k \in KeyInputs, iv \in IVInputs : Construct(k, iv)
  \/ \E plain \in PlainInputs : CallPadInv(plain)
  \/ \E a \in HexStrings(MaxXorDigits), b \in HexStrings(MaxXorDigits), length \in {0, 2, 8} :
       CallXor(a, b, length)
  \/ \E block \in BlockInputs : CallShiftRowsInv(block)
  \/ \E block \in BlockInputs : CallMixColumnsInv(block)
  \/ \E block \in BlockInputs : CallDecryptBlock(block)
  \/ \E cipher \in CipherInputs : CallDecrypt(cipher)
  \/ Return

Spec == Init /\ [][Next]_vars

\* ------------------------------------------------- byte-level reference
\* The statements below are written over bytes 0..255, independently of the
\* hex-string operators above.
HexToBytes(s) == [j \in 1..(Len(s) \div 2) |-> 16 * s[2 * j - 1] + s[2 * j]]
\* a function over 1..n written out as a tuple
Tuple(f) == SubSeq(f, 1, Len(f))

XorBytes(u, v) == Tuple([j \in 1..Len(u) |-> BitXor(u[j], v[j])])

Word(rk, c) == SubSeq(HexToBytes(rk), 4 * c + 1, 4 * c + 4)

RotateWord(w) == <<w[2], w[3], w[4], w[1]>>

SubstituteBytes(w) == [j \in 1..Len(w) |-> SBoxTable[w[j] + 1]]

RoundConstant(i) == << <<1, 2, 4, 8, 16, 32, 64, 128, 27, 54>>[i], 0, 0, 0 >>

\* doubling in GF(2^8) modulo x^8 + x^4 + x^3 + x + 1
Xtime(b) == IF 2 * b >= 256 THEN BitXor(2 * b - 256, 27) ELSE 2 * b

RECURSIVE GMul(_, _)
GMul(a, b) ==
  IF b = 0 THEN 0
  ELSE BitXor(IF b % 2 = 1 THEN a ELSE 0, GMul(Xtime(a), b \div 2))

InverseSBox(v) == CHOOSE x \in 0..255 : SBoxTable[x + 1] = v

\* byte 4c + r of the state is column c, row r.  InverseShiftRows moves row r
\* right by r; InverseSubBytes and AddRoundKey act byte by byte
KeyedByte(st, rk, r, c) ==
  BitXor(InverseSBox(st[4 * ((c + 4 - r) % 4) + r + 1]), HexToBytes(rk)[4 * c + r + 1])

\* InverseShiftRows, InverseSubBytes, AddRoundKey(rk)
KeyedState(st, rk) ==
  Tuple([j \in 1..16 |-> KeyedByte(st, rk, (j - 1) % 4, (j - 1) \div 4)])

\* b_r = 0E.a_r + 0B.a_(r+1) + 0D.a_(r+2) + 09.a_(r+3) in each column
InverseMixColumns(st) ==
  Tuple([j \in 1..16 |->
     LET r == (j - 1) % 4
         c == (j - 1) \div 4
     IN BitXor(BitXor(GMul(st[4 * c + (r % 4) + 1], 14),
                      GMul(st[4 * c + ((r + 1) % 4) + 1], 11)),
               BitXor(GMul(st[4 * c + ((r + 2) % 4) + 1], 13),
                      GMul(st[4 * c + ((r + 3) % 4) + 1], 9)))])

\* rounds r down to 0 applied to the state st left by round r + 1
RECURSIVE InverseRounds(_, _, _)
InverseRounds(st, rks, r) ==
  IF r = 0 THEN KeyedState(st, rks[0])
  ELSE LET next == InverseMixColumns(KeyedState(st, rks[r]))
       IN \* a state is 16 bytes; the test has round r computed before r - 1
          IF Len(next) = 16 THEN InverseRounds(next, rks, r - 1) ELSE <<>>

InverseCipher(block, rks) ==
  InverseRounds(XorBytes(HexToBytes(block), HexToBytes(rks[10])), rks, 9)

Constructed == pc \in {"ready", "returned"}

Returned(op) == pc = "returned" /\ call.op = op

\* ---------------------------------------------------------------- claims

\* C1: for a 16-byte root key, Rkey[0] is the key and for i in 1..10 the four
\* words of Rkey[i] are w0' = w0 XOR (SubstituteBytes(RotateWord(w3)) XOR
\* RoundConstant[i]), w1' = w1 XOR w0', w2' = w2 XOR w1', w3' = w3 XOR w2',
\* with w0..w3 the words of Rkey[i-1].
KeyScheduleRecurrence ==
  (Constructed /\ Len(key) = 32) =>
    /\ Rkey[0] = key
    /\ \A i \in 1..10 :
         LET w0 == Word(Rkey[i - 1], 0)
             w1 == Word(Rkey[i - 1], 1)
             w2 == Word(Rkey[i - 1], 2)
             w3 == Word(Rkey[i - 1], 3)
             n0 == XorBytes(w0, XorBytes(SubstituteBytes(RotateWord(w3)), RoundConstant(i)))
             n1 == XorBytes(w1, n0)
             n2 == XorBytes(w2, n1)
             n3 == XorBytes(w3, n2)
         IN HexToBytes(Rkey[i]) = n0 \o n1 \o n2 \o n3

\* the FIPS-197 A.1/C.1 key 000102..0f expanded to its last round key
KeyScheduleKnownAnswer ==
  /\ Constructed
  /\ key = KATKey
  /\ Rkey[10] = BytesToHex(<<19, 17, 29, 127, 227, 148, 74, 23, 243, 7, 167, 139, 77, 43, 48, 197>>)

\* C2: decryptBlock returns the AES-128 inverse cipher of the block under the
\* round keys (AddRoundKey 10; rounds 9..1 InverseShiftRows, InverseSubBytes,
\* AddRoundKey, InverseMixColumns; then InverseShiftRows, InverseSubBytes,
\* AddRoundKey 0); with key 000102..0f, 69c4e0d8..c55a gives 00112233..eeff.
DecryptBlockIsInverseCipher ==
  (Returned("decryptBlock") /\ Len(key) = 32) =>
    /\ ret.ok
    /\ HexToBytes(ret.val) = InverseCipher(call.args[1], Rkey)
    /\ (key = KATKey /\ call.args[1] = KATCipher) => ret.val = KATPlain

\* C3: for a ciphertext of n >= 1 blocks, decrypt returns the concatenation of
\* P[0] = decryptBlock(C[0]) XOR IV and P[i] = decryptBlock(C[i]) XOR C[i-1].
CipherBlock(cipher, i) == SubSeq(cipher, 32 * i + 1, 32 * i + 32)

RECURSIVE ChainedPlain(_, _, _)
ChainedPlain(cipher, iv, i) ==
  IF 32 * i >= Len(cipher) THEN <<>>
  ELSE XorBytes(HexToBytes(decryptBlock(CipherBlock(cipher, i)).val),
                HexToBytes(IF i = 0 THEN iv ELSE CipherBlock(cipher, i - 1)))
         \o ChainedPlain(cipher, iv, i + 1)

WholeBlocks(cipher) == Len(cipher) > 0 /\ Len(cipher) % 32 = 0

DecryptChainsBlocks ==
  (Returned("decrypt") /\ WholeBlocks(call.args[1])) =>
    /\ ret.ok
    /\ HexToBytes(ret.val) = ChainedPlain(call.args[1], IV, 0)

\* C4: decrypt of a ciphertext whose length is not a positive multiple of 16
\* bytes fails with InvalidBlockLength and returns no plaintext.
DecryptRejectsBadLength ==
  (Returned("decrypt") /\ ~WholeBlocks(call.args[1])) =>
    /\ ~ret.ok
    /\ ret.err = "InvalidBlockLength"

\* C5: construction with a key that is not exactly 16 bytes fails, so no
\* cipher object with round keys comes from such a key.
ConstructRejectsBadKey ==
  /\ (call.op = "__init__" /\ Len(call.args[1]) # 32) => pc = "failed"
  /\ Constructed => Len(key) = 32

\* C6: a buffer whose last byte is p in 1..16 and whose last p bytes all equal
\* p comes back from padInv without exactly those p bytes.
PadLength(plain) == HexToBytes(plain)[Len(plain) \div 2]

PadBytesMatch(plain) ==
  LET bs == HexToBytes(plain)
      p == PadLength(plain)
  IN /\ p <= Len(bs)
     /\ \A j \in (Len(bs) - p + 1)..Len(bs) : bs[j] = p

ValidPad(plain) ==
  /\ Len(plain) >= 2
  /\ PadLength(plain) \in 1..16
  /\ PadBytesMatch(plain)

PadInvStripsValidPad ==
  (Returned("padInv") /\ ValidPad(call.args[1])) =>
    /\ ret.ok
    /\ ret.val = SubSeq(call.args[1], 1, Len(call.args[1]) - 2 * PadLength(call.args[1]))

\* aa 04 04 04 04 loses exactly four bytes
PadInvStripsFour ==
  /\ Returned("padInv")
  /\ call.args[1] = BytesToHex(<<170, 4, 4, 4, 4>>)
  /\ ret = Ok(BytesToHex(<<170>>))

\* C7: when pad validation fails (last byte p outside 1..16, or the last p
\* bytes not all equal to p) padInv returns the buffer unmodified, no error.
PadInvPassesInvalidPad ==
  (Returned("padInv") /\ Len(call.args[1]) >= 2 /\ ~ValidPad(call.args[1])) =>
    ret = Ok(call.args[1])

\* C8: for a 16-byte root key expandKey returns exactly 11 entries, indexed
\* 0..10, each of 32 hex digits, also when an XOR result starts with zeros.
RoundKeysAreBlocks ==
  (Constructed /\ Len(key) = 32) =>
    /\ DOMAIN Rkey = 0..10
    /\ \A i \in 0..10 : Len(Rkey[i]) = 32 /\ \A j \in 1..32 : Rkey[i][j] \in 0..15

\* a first word of Rkey[1] whose XOR result starts with a zero byte
RoundKeyLeadingZero ==
  /\ Constructed
  /\ key = LeadingZeroKey
  /\ SubSeq(Rkey[1], 1, 2) = <<0, 0>>
  /\ Len(Rkey[1]) = 32

\* C9: xor of equal-length operands is their byte-wise exclusive-or; with
\* operands of different lengths it fails and returns no value.
XorChecksLengths ==
  Returned("xor") =>
    LET a == call.args[1]
        b == call.args[2]
    IN /\ (Len(a) = Len(b) /\ Len(a) > 0 /\ call.args[3] = <<Len(a)>>) =>
             ret = Ok([j \in 1..Len(a) |-> BitXor(a[j], b[j])])
       /\ Len(a) # Len(b) => ~ret.ok

\* C10: for i in 1..10 Rcon[i] is a 4-byte word with low three bytes zero and
\* high byte 0x01 for i = 1, the GF(2^8) double of Rcon[i-1]'s otherwise.
RconIsDoubling ==
  Constructed =>
    \A i \in 1..10 :
      /\ Len(Rcon[i]) = 8
      /\ SubSeq(HexToBytes(Rcon[i]), 2, 4) = <<0, 0, 0>>
      /\ HexToBytes(Rcon[i])[1] = IF i = 1 THEN 1 ELSE Xtime(HexToBytes(Rcon[i - 1])[1])

\* the reduction step has happened: 0x80 doubles to 0x1B, then 0x36
RconReduced ==
  /\ Constructed
  /\ Len(key) = 32
  /\ HexToBytes(Rcon[9])[1] = 27
  /\ HexToBytes(Rcon[10])[1] = 54

====
